---------------------------- MODULE Spec2Model ----------------------------
(***************************************************************************)
(* TalentTrack job-portal backend (src/unnamed/part_000): the skill        *)
(* extractor, the match scorer, the recommendation ranker, and the signup  *)
(* and apply handlers with their awaited database steps.                   *)
(*                                                                         *)
(* A JavaScript string is a sequence of one-character strings, so that     *)
(* toLowerCase and includes are computed character by character.  A match  *)
(* score is the exact quotient [num, den] of the two integers the code     *)
(* divides; for the list lengths modelled here two doubles m/n compare as  *)
(* the rationals do (IEEE division is correctly rounded).                  *)
(***************************************************************************)
EXTENDS Integers, Sequences, FiniteSets, TLC

VARIABLES
    users,          \* User collection, in insertion order; _id = position
    jobs,           \* Job collection, in natural (insertion) order
    resumes,        \* Resume collection
    applications,   \* Application collection
    reqs,           \* HTTP requests received so far, each with its handler's position
    maxReqs,        \* how many requests the clients send in all
    text,           \* argument of a direct extractSkillsFromText call
    foundSkills,    \* its return value
    skillsA,        \* first argument of a direct calculateMatchScore call
    skillsB,        \* second argument
    matchScore,     \* calculateMatchScore(skillsA, skillsB)
    swappedScore,   \* calculateMatchScore(skillsB, skillsA)
    fnpc            \* "idle" | "call" | "done": position of the direct call

vars == <<users, jobs, resumes, applications, reqs, maxReqs,
          text, foundSkills, skillsA, skillsB, matchScore, swappedScore, fnpc>>

storeVars == <<users, jobs, resumes, applications>>
fnVars == <<text, foundSkills, skillsA, skillsB, matchScore, swappedScore, fnpc>>

-----------------------------------------------------------------------------
(* Strings *)

UpperChars == <<"A","B","C","D","E","F","G","H","I","J","K","L","M",
                "N","O","P","Q","R","S","T","U","V","W","X","Y","Z">>
LowerChars == <<"a","b","c","d","e","f","g","h","i","j","k","l","m",
                "n","o","p","q","r","s","t","u","v","w","x","y","z">>
OtherChars == {" ", ".", "/"}

Chars == {UpperChars[i] : i \in DOMAIN UpperChars}
           \cup {LowerChars[i] : i \in DOMAIN LowerChars} \cup OtherChars

\* String.prototype.toLowerCase on one character
LowerMap ==
    [c \in Chars |->
        IF \E i \in DOMAIN UpperChars : UpperChars[i] = c
        THEN LowerChars[CHOOSE i \in DOMAIN UpperChars : UpperChars[i] = c]
        ELSE c]

toLowerCase(s) == [i \in 1..Len(s) |-> LowerMap[s[i]]]

\* String.prototype.includes: some position of str starts a copy of search
StringIncludes(str, search) ==
    \E k \in 0..(Len(str) - Len(search)) :
        SubSeq(str, k + 1, k + Len(search)) = search

\* Array.prototype.includes
ArrayIncludes(arr, x) == \E i \in DOMAIN arr : arr[i] = x

-----------------------------------------------------------------------------
(* extractSkillsFromText *)

commonSkills ==
  << <<"J","a","v","a","S","c","r","i","p","t">>,
     <<"P","y","t","h","o","n">>,
     <<"J","a","v","a">>,
     <<"R","e","a","c","t">>,
     <<"N","o","d","e",".","j","s">>,
     <<"M","o","n","g","o","D","B">>,
     <<"S","Q","L">>,
     <<"A","W","S">>,
     <<"D","o","c","k","e","r">>,
     <<"K","u","b","e","r","n","e","t","e","s">>,
     <<"G","i","t">>,
     <<"H","T","M","L">>,
     <<"C","S","S">>,
     <<"T","y","p","e","S","c","r","i","p","t">>,
     <<"A","n","g","u","l","a","r">>,
     <<"V","u","e",".","j","s">>,
     <<"E","x","p","r","e","s","s">>,
     <<"D","j","a","n","g","o">>,
     <<"F","l","a","s","k">>,
     <<"S","p","r","i","n","g"," ","B","o","o","t">>,
     <<"P","o","s","t","g","r","e","S","Q","L">>,
     <<"M","y","S","Q","L">>,
     <<"R","e","d","i","s">>,
     <<"G","r","a","p","h","Q","L">>,
     <<"R","E","S","T"," ","A","P","I">>,
     <<"M","a","c","h","i","n","e"," ","L","e","a","r","n","i","n","g">>,
     <<"D","a","t","a"," ","S","c","i","e","n","c","e">>,
     <<"D","e","v","O","p","s">>,
     <<"C","I","/","C","D">>,
     <<"A","g","i","l","e">>,
     <<"S","c","r","u","m">>,
     <<"P","r","o","j","e","c","t"," ","M","a","n","a","g","e","m","e","n","t">> >>

\* faulty variant: the text is searched as written, not lowercased
extractSkillsFromText_CaseSensitive(t) ==
    SelectSeq(commonSkills, LAMBDA skill : StringIncludes(t, toLowerCase(skill)))

extractSkillsFromText(t) ==
    SelectSeq(commonSkills,
              LAMBDA skill : StringIncludes(toLowerCase(t), toLowerCase(skill)))

-----------------------------------------------------------------------------
(* calculateMatchScore *)

Max(a, b) == IF a >= b THEN a ELSE b

Zero == [num |-> 0, den |-> 1]

calculateMatchScore(userSkills, jobSkills) ==
    IF Len(userSkills) = 0 \/ Len(jobSkills) = 0
    THEN Zero
    ELSE LET userSkillsLower == [i \in 1..Len(userSkills) |-> toLowerCase(userSkills[i])]
             jobSkillsLower  == [i \in 1..Len(jobSkills) |-> toLowerCase(jobSkills[i])]
             matchingSkills  == SelectSeq(userSkillsLower,
                                    LAMBDA skill : ArrayIncludes(jobSkillsLower, skill))
         IN  [num |-> Len(matchingSkills),
              den |-> Max(Len(userSkills), Len(jobSkills))]

\* comparisons of two scores as numbers
ScoreEq(x, y) == x.num * y.den = y.num * x.den
ScoreGt(x, y) == x.num * y.den > y.num * x.den

-----------------------------------------------------------------------------
(* GET /api/job-recommendations: scoring, filtering, sorting, truncating *)

TopN == 10                              \* .slice(0, 10)
Threshold == [num |-> 1, den |-> 10]    \* job.matchScore > 0.1

Min(a, b) == IF a <= b THEN a ELSE b

\* Math.round(matchScore * 100): the nearest integer, halves rounded up
RoundPercent(score) == (200 * score.num + score.den) \div (2 * score.den)

\* allJobs.map(job => ({...job.toObject(), matchScore, matchPercentage}))
ScoreJobs(userSkills, allJobs) ==
    [i \in 1..Len(allJobs) |->
        LET score == calculateMatchScore(userSkills, allJobs[i].skills)
        IN  [job |-> i,
             skills |-> allJobs[i].skills,
             matchScore |-> score,
             matchPercentage |-> RoundPercent(score)]]

\* faulty variant: a score equal to the threshold is let through
AboveThreshold_Inclusive(rec) == ~ ScoreGt(Threshold, rec.matchScore)

\* .filter(job => job.matchScore > 0.1)
AboveThreshold(rec) == ScoreGt(rec.matchScore, Threshold)

\* Array.prototype.sort with (a, b) => b.matchScore - a.matchScore.  The sort is
\* stable (ECMAScript 2019, Node 11 and later): an element goes behind every
\* element already placed whose score is not smaller than its own.
RECURSIVE InsertByScore(_, _)
InsertByScore(rec, sorted) ==
    IF sorted = <<>> THEN <<rec>>
    ELSE IF ScoreGt(rec.matchScore, Head(sorted).matchScore)
         THEN <<rec>> \o sorted
         ELSE <<Head(sorted)>> \o InsertByScore(rec, Tail(sorted))

RECURSIVE SortFrom(_, _)
SortFrom(recs, sorted) ==
    IF recs = <<>> THEN sorted
    ELSE SortFrom(Tail(recs), InsertByScore(Head(recs), sorted))

SortByScore(recs) == SortFrom(recs, <<>>)

\* .slice(0, 10)
Slice(arr, n) == SubSeq(arr, 1, Min(n, Len(arr)))

\* faulty variant: the list is cut to ten entries before it is filtered and sorted
TopRecommendations_SliceFirst(recommendations) ==
    SortByScore(SelectSeq(Slice(recommendations, TopN), AboveThreshold))

TopRecommendations(recommendations) ==
    Slice(SortByScore(SelectSeq(recommendations, AboveThreshold)), TopN)

-----------------------------------------------------------------------------
(* Stored documents *)

\* user.profile.parsedResume: missing, or an object with or without a skills list
NoResume == [present |-> FALSE, hasSkills |-> FALSE, skills |-> <<>>]

Resume(skills) == [present |-> TRUE, hasSkills |-> TRUE, skills |-> skills]

\* new User({name, email, password, role}): no profile data yet
NewUser(email) ==
    [email |-> email, profile |-> [skills |-> <<>>, parsedResume |-> NoResume]]

\* parsedData.skills of the upload handler
MockSkills ==
    <<commonSkills[1], commonSkills[4], commonSkills[5], commonSkills[6], commonSkills[17]>>

EmailStored(email) == \E i \in DOMAIN users : users[i].email = email

ApplicationStored(jobId, userId) ==
    \E i \in DOMAIN applications :
        applications[i].jobId = jobId /\ applications[i].userId = userId

-----------------------------------------------------------------------------
(* Requests.  A handler runs from one await to the next in one step; other  *)
(* requests' steps may come between two steps of the same handler.          *)

NewReq(kind, pc) ==
    [kind |-> kind, pc |-> pc,
     uid |-> 0,                 \* req.user.id
     email |-> "",              \* req.body.email
     hasPassword |-> FALSE,     \* req.body.password is a string
     jobId |-> 0,               \* req.body.jobId
     body |-> <<>>,             \* requirements + ' ' + description
     storedAtStart |-> FALSE,   \* the email or (jobId, userId) was stored on receipt
     skills |-> <<>>,           \* local skills (post job) or userSkills (recommend)
     ranJobFind |-> FALSE,      \* Job.find() was issued
     scored |-> <<>>,           \* local recommendations: every job with its score
     status |-> 0,              \* response status, 0 until the response is sent
     message |-> "",
     token |-> FALSE,           \* the response carries a token
     recommendations |-> <<>>,  \* the response's recommendations
     sentUserSkills |-> FALSE]  \* the response carries userSkills

Respond(req, status, message) ==
    [req EXCEPT !.pc = "done", !.status = status, !.message = message]

\* authenticateToken: req.user is a user that signed up or logged in
Authenticated(u) == u \in DOMAIN users

CanReceive == Len(reqs) < maxReqs

\* ---- POST /api/signup ----

ReceiveSignup(email, hasPassword) ==
    /\ CanReceive
    /\ reqs' = Append(reqs, [NewReq("signup", "findOne") EXCEPT
                                !.email = email,
                                !.hasPassword = hasPassword,
                                !.storedAtStart = EmailStored(email)])
    /\ UNCHANGED <<storeVars, maxReqs, fnVars>>

\* await User.findOne({ email }), then the early return or bcrypt.hash
SignupFindOne(r) ==
    /\ reqs[r].kind = "signup" /\ reqs[r].pc = "findOne"
    /\ reqs' = [reqs EXCEPT ![r] =
                   IF EmailStored(reqs[r].email)
                   THEN Respond(@, 400, "Email already exists")
                   ELSE [@ EXCEPT !.pc = "hash"]]
    /\ UNCHANGED <<storeVars, maxReqs, fnVars>>

\* await bcrypt.hash(password, 10): rejects when the password is missing, and
\* the rejection is caught and answered 500
SignupHash(r) ==
    /\ reqs[r].kind = "signup" /\ reqs[r].pc = "hash"
    /\ reqs' = [reqs EXCEPT ![r] =
                   IF reqs[r].hasPassword
                   THEN [@ EXCEPT !.pc = "save"]
                   ELSE Respond(@, 500, "Server error")]
    /\ UNCHANGED <<storeVars, maxReqs, fnVars>>

\* faulty variant: the email field carries no unique index
UniqueIndexRejects_NoIndex(email) == FALSE

\* email: { type: String, unique: true }: the store rejects a second document
UniqueIndexRejects(email) == EmailStored(email)

\* await user.save(), then jwt.sign and the response; a rejected save is
\* caught and answered 500
SignupSave(r) ==
    /\ reqs[r].kind = "signup" /\ reqs[r].pc = "save"
    /\ IF UniqueIndexRejects(reqs[r].email)
       THEN /\ reqs' = [reqs EXCEPT ![r] = Respond(@, 500, "Server error")]
            /\ UNCHANGED users
       ELSE /\ users' = Append(users, NewUser(reqs[r].email))
            /\ reqs' = [reqs EXCEPT ![r] = [Respond(@, 200, "") EXCEPT !.token = TRUE]]
    /\ UNCHANGED <<jobs, resumes, applications, maxReqs, fnVars>>

\* ---- POST /api/upload-resume ----

ReceiveUpload(u, hasFile) ==
    /\ CanReceive
    /\ Authenticated(u)
    /\ reqs' = Append(reqs,
                 IF hasFile
                 THEN [NewReq("upload", "saveResume") EXCEPT !.uid = u]
                 ELSE [Respond(NewReq("upload", "start"), 400, "No file uploaded")
                          EXCEPT !.uid = u])
    /\ UNCHANGED <<storeVars, maxReqs, fnVars>>

\* await resume.save()
UploadSaveResume(r) ==
    /\ reqs[r].kind = "upload" /\ reqs[r].pc = "saveResume"
    /\ resumes' = Append(resumes, [userId |-> reqs[r].uid, skills |-> MockSkills])
    /\ reqs' = [reqs EXCEPT ![r].pc = "updateUser"]
    /\ UNCHANGED <<users, jobs, applications, maxReqs, fnVars>>

\* await User.findByIdAndUpdate(req.user.id, {...})
UploadUpdateUser(r) ==
    /\ reqs[r].kind = "upload" /\ reqs[r].pc = "updateUser"
    /\ users' = [users EXCEPT ![reqs[r].uid].profile =
                    [skills |-> MockSkills, parsedResume |-> Resume(MockSkills)]]
    /\ reqs' = [reqs EXCEPT ![r] = Respond(@, 200, "Resume uploaded successfully")]
    /\ UNCHANGED <<jobs, resumes, applications, maxReqs, fnVars>>

\* ---- POST /api/jobs ----

ReceivePostJob(u, body) ==
    /\ CanReceive
    /\ Authenticated(u)
    /\ reqs' = Append(reqs, [NewReq("postjob", "save") EXCEPT
                                !.uid = u,
                                !.body = body,
                                !.skills = extractSkillsFromText(body)])
    /\ UNCHANGED <<storeVars, maxReqs, fnVars>>

\* await job.save()
PostJobSave(r) ==
    /\ reqs[r].kind = "postjob" /\ reqs[r].pc = "save"
    /\ jobs' = Append(jobs, [skills |-> reqs[r].skills])
    /\ reqs' = [reqs EXCEPT ![r] = Respond(@, 200, "Job posted successfully")]
    /\ UNCHANGED <<users, resumes, applications, maxReqs, fnVars>>

\* ---- GET /api/job-recommendations ----

ReceiveRecommend(u) ==
    /\ CanReceive
    /\ Authenticated(u)
    /\ reqs' = Append(reqs, [NewReq("recommend", "findById") EXCEPT !.uid = u])
    /\ UNCHANGED <<storeVars, maxReqs, fnVars>>

\* faulty variant: the missing-resume test is dropped
HasParsedResume_Always(user) == TRUE

\* !user.profile.parsedResume is false
HasParsedResume(user) == user.profile.parsedResume.present

\* user.profile.parsedResume.skills || []
UserSkillsOf(user) ==
    IF user.profile.parsedResume.hasSkills
    THEN user.profile.parsedResume.skills
    ELSE <<>>

\* await User.findById(req.user.id), then the early return or Job.find()
RecommendFindById(r) ==
    /\ reqs[r].kind = "recommend" /\ reqs[r].pc = "findById"
    /\ LET user == users[reqs[r].uid]
       IN  reqs' = [reqs EXCEPT ![r] =
                       IF ~ HasParsedResume(user)
                       THEN Respond(@, 200, "No resume uploaded yet")
                       ELSE [@ EXCEPT !.pc = "find",
                                      !.skills = UserSkillsOf(user),
                                      !.ranJobFind = TRUE]]
    /\ UNCHANGED <<storeVars, maxReqs, fnVars>>

\* faulty variant: the ranked list is saved back as the Job collection
RecommendFind_SavesRanking(r) ==
    /\ reqs[r].kind = "recommend" /\ reqs[r].pc = "find"
    /\ LET recommendations == ScoreJobs(reqs[r].skills, jobs)
           top == TopRecommendations(recommendations)
       IN  /\ reqs' = [reqs EXCEPT ![r] =
                         [Respond(@, 200, "") EXCEPT
                             !.scored = recommendations,
                             !.recommendations = top,
                             !.sentUserSkills = TRUE]]
           /\ jobs' = [i \in 1..Len(top) |-> [skills |-> top[i].skills]]
    /\ UNCHANGED <<users, resumes, applications, maxReqs, fnVars>>

\* await Job.find(), then map, filter, sort, slice and the response
RecommendFind(r) ==
    /\ reqs[r].kind = "recommend" /\ reqs[r].pc = "find"
    /\ LET recommendations == ScoreJobs(reqs[r].skills, jobs)
       IN  reqs' = [reqs EXCEPT ![r] =
                       [Respond(@, 200, "") EXCEPT
                           !.scored = recommendations,
                           !.recommendations = TopRecommendations(recommendations),
                           !.sentUserSkills = TRUE]]
    /\ UNCHANGED <<storeVars, maxReqs, fnVars>>

\* ---- POST /api/apply ----

ReceiveApply(u, jobId) ==
    /\ CanReceive
    /\ Authenticated(u)
    /\ reqs' = Append(reqs, [NewReq("apply", "findOne") EXCEPT
                                !.uid = u,
                                !.jobId = jobId,
                                !.storedAtStart = ApplicationStored(jobId, u)])
    /\ UNCHANGED <<storeVars, maxReqs, fnVars>>

\* await Application.findOne({ jobId, userId }), then the early return
ApplyFindOne(r) ==
    /\ reqs[r].kind = "apply" /\ reqs[r].pc = "findOne"
    /\ reqs' = [reqs EXCEPT ![r] =
                   IF ApplicationStored(reqs[r].jobId, reqs[r].uid)
                   THEN Respond(@, 400, "Already applied to this job.")
                   ELSE [@ EXCEPT !.pc = "save"]]
    /\ UNCHANGED <<storeVars, maxReqs, fnVars>>

\* await application.save(): the schema puts no index on (jobId, userId)
ApplySave(r) ==
    /\ reqs[r].kind = "apply" /\ reqs[r].pc = "save"
    /\ applications' = Append(applications,
                              [jobId |-> reqs[r].jobId, userId |-> reqs[r].uid])
    /\ reqs' = [reqs EXCEPT ![r] = Respond(@, 200, "Application submitted!")]
    /\ UNCHANGED <<users, jobs, resumes, maxReqs, fnVars>>

\* ---- POST /api/seed-jobs ----

FullStackSkills == <<<<"R","e","a","c","t">>,
                   <<"N","o","d","e",".","j","s">>,
                   <<"M","o","n","g","o","D","B">>,
                   <<"E","x","p","r","e","s","s">>,
                   <<"G","i","t">>>>
FrontendSkills == <<<<"R","e","a","c","t">>,
                  <<"J","a","v","a","S","c","r","i","p","t">>,
                  <<"H","T","M","L">>,
                  <<"C","S","S">>,
                  <<"T","y","p","e","S","c","r","i","p","t">>>>
DevOpsSkills == <<<<"A","W","S">>,
                <<"D","o","c","k","e","r">>,
                <<"K","u","b","e","r","n","e","t","e","s">>,
                <<"C","I","/","C","D">>,
                <<"D","e","v","O","p","s">>>>
BackendSkills == <<<<"N","o","d","e",".","j","s">>,
                 <<"M","o","n","g","o","D","B">>,
                 <<"E","x","p","r","e","s","s">>,
                 <<"A","W","S">>,
                 <<"D","o","c","k","e","r">>>>
DataScienceSkills == <<<<"P","y","t","h","o","n">>,
                     <<"M","a","c","h","i","n","e"," ","L","e","a","r","n","i","n","g">>,
                     <<"S","Q","L">>,
                     <<"D","a","t","a"," ","S","c","i","e","n","c","e">>>>
DesignSkills == <<<<"F","i","g","m","a">>,
                <<"U","I","/","U","X">>,
                <<"D","e","s","i","g","n">>,
                <<"P","r","o","t","o","t","y","p","i","n","g">>>>

\* sampleJobs, by their skills
sampleJobs ==
    <<[skills |-> FrontendSkills], [skills |-> BackendSkills],
      [skills |-> FullStackSkills], [skills |-> DevOpsSkills],
      [skills |-> DataScienceSkills], [skills |-> DesignSkills]>>

ReceiveSeedJobs ==
    /\ CanReceive
    /\ reqs' = Append(reqs, NewReq("seed", "deleteMany"))
    /\ UNCHANGED <<storeVars, maxReqs, fnVars>>

\* await Job.deleteMany({})
SeedDeleteMany(r) ==
    /\ reqs[r].kind = "seed" /\ reqs[r].pc = "deleteMany"
    /\ jobs' = <<>>
    /\ reqs' = [reqs EXCEPT ![r].pc = "insertMany"]
    /\ UNCHANGED <<users, resumes, applications, maxReqs, fnVars>>

\* await Job.insertMany(sampleJobs)
SeedInsertMany(r) ==
    /\ reqs[r].kind = "seed" /\ reqs[r].pc = "insertMany"
    /\ jobs' = jobs \o sampleJobs
    /\ reqs' = [reqs EXCEPT ![r] = Respond(@, 200, "Sample jobs seeded successfully")]
    /\ UNCHANGED <<users, resumes, applications, maxReqs, fnVars>>

-----------------------------------------------------------------------------
(* Direct calls of the two pure functions on inputs drawn from bounded sets *)

MaxSkills == 3      \* longest skill list passed to calculateMatchScore directly
MaxFrags == 3       \* most fragments concatenated into an extraction text

BoundedSeq(S, n) == UNION {[1..k -> S] : k \in 0..n}

\* skill names of the direct scoring calls: two spellings of one skill, two others
ScoreSkillNames == {<<"G","i","t">>, <<"g","i","t">>, <<"A","W","S">>, <<"S","Q","L">>}

\* pieces of posting text: vocabulary words in other letter case, a word that
\* is part of longer vocabulary words, white space
Fragments == {<<"J","a","v","a">>,
              <<"S","C","R","I","P","T">>,
              <<" ">>,
              <<"m","y">>,
              <<"s","q","l">>,
              <<"R","e","a","c","t">>,
              <<"n","o","d","e",".","J","S">>}

RECURSIVE Concat(_)
Concat(ss) == IF ss = <<>> THEN <<>> ELSE Head(ss) \o Concat(Tail(ss))

Texts == {Concat(fs) : fs \in BoundedSeq(Fragments, MaxFrags)}

IdleStores ==
    /\ users = <<>>
    /\ jobs = <<>>
    /\ resumes = <<>>
    /\ applications = <<>>
    /\ reqs = <<>>
    /\ maxReqs = 0

InitScore ==
    /\ IdleStores
    /\ text = <<>>
    /\ foundSkills = <<>>
    /\ skillsA \in BoundedSeq(ScoreSkillNames, MaxSkills)
    /\ skillsB \in BoundedSeq(ScoreSkillNames, MaxSkills)
    /\ matchScore = Zero
    /\ swappedScore = Zero
    /\ fnpc = "call"

ScoreCall ==
    /\ fnpc = "call"
    /\ matchScore' = calculateMatchScore(skillsA, skillsB)
    /\ swappedScore' = calculateMatchScore(skillsB, skillsA)
    /\ fnpc' = "done"
    /\ UNCHANGED <<storeVars, reqs, maxReqs, text, foundSkills, skillsA, skillsB>>

NextScore == ScoreCall

SpecScore == InitScore /\ [][NextScore]_vars

InitExtract ==
    /\ IdleStores
    /\ text \in Texts
    /\ foundSkills = <<>>
    /\ skillsA = <<>>
    /\ skillsB = <<>>
    /\ matchScore = Zero
    /\ swappedScore = Zero
    /\ fnpc = "call"

ExtractCall ==
    /\ fnpc = "call"
    /\ foundSkills' = extractSkillsFromText(text)
    /\ fnpc' = "done"
    /\ UNCHANGED <<storeVars, reqs, maxReqs, text, skillsA, skillsB, matchScore, swappedScore>>

NextExtract == ExtractCall

SpecExtract == InitExtract /\ [][NextExtract]_vars

-----------------------------------------------------------------------------
(* The server: requests of every kind, interleaved at their awaits *)

MaxReqs == 3        \* requests sent in one behaviour of the server

Emails == {"a@x", "b@x"}

JobIds == {1, 2}

\* requirements + ' ' + description of the posting already stored in UsedStore
StoredPosting == <<"R","e","a","c","t"," ","n","o","d","e",".","J","S">>

\* requirements + ' ' + description of the postings sent
PostingTexts == {<<"m","y"," ","s","q","l">>}

FnIdle ==
    /\ text = <<>>
    /\ foundSkills = <<>>
    /\ skillsA = <<>>
    /\ skillsB = <<>>
    /\ matchScore = Zero
    /\ swappedScore = Zero
    /\ fnpc = "idle"

\* a new database
FreshStore ==
    /\ users = <<>>
    /\ jobs = <<>>
    /\ resumes = <<>>
    /\ applications = <<>>

\* the database after a@x signed up, uploaded a resume and posted one job
UsedStore ==
    /\ users = <<[email |-> "a@x",
                  profile |-> [skills |-> MockSkills,
                               parsedResume |-> Resume(MockSkills)]]>>
    /\ jobs = <<[skills |-> extractSkillsFromText(StoredPosting)]>>
    /\ resumes = <<[userId |-> 1, skills |-> MockSkills]>>
    /\ applications = <<>>

Init ==
    /\ FreshStore \/ UsedStore
    /\ reqs = <<>>
    /\ maxReqs = MaxReqs
    /\ FnIdle

Next ==
    \/ \E email \in Emails, hasPassword \in BOOLEAN : ReceiveSignup(email, hasPassword)
    \/ \E u \in DOMAIN users, hasFile \in BOOLEAN : ReceiveUpload(u, hasFile)
    \/ \E u \in DOMAIN users, body \in PostingTexts : ReceivePostJob(u, body)
    \/ \E u \in DOMAIN users : ReceiveRecommend(u)
    \/ \E u \in DOMAIN users, jobId \in JobIds : ReceiveApply(u, jobId)
    \/ \E r \in DOMAIN reqs : SignupFindOne(r)
    \/ \E r \in DOMAIN reqs : SignupHash(r)
    \/ \E r \in DOMAIN reqs : SignupSave(r)
    \/ \E r \in DOMAIN reqs : UploadSaveResume(r)
    \/ \E r \in DOMAIN reqs : UploadUpdateUser(r)
    \/ \E r \in DOMAIN reqs : PostJobSave(r)
    \/ \E r \in DOMAIN reqs : RecommendFindById(r)
    \/ \E r \in DOMAIN reqs : RecommendFind(r)
    \/ \E r \in DOMAIN reqs : ApplyFindOne(r)
    \/ \E r \in DOMAIN reqs : ApplySave(r)
    \/ ReceiveSeedJobs
    \/ \E r \in DOMAIN reqs : SeedDeleteMany(r)
    \/ \E r \in DOMAIN reqs : SeedInsertMany(r)

Spec == Init /\ [][Next]_vars

-----------------------------------------------------------------------------
(* The ranker alone: one recommendation request against a stored candidate  *)
(* and a stored job list                                                    *)

MaxRankJobs == 11   \* longest stored job list ranked; one more than TopN

\* extractSkillsFromText of a posting naming React and Node.js
ReactNodeSkills == <<<<"R","e","a","c","t">>,
                   <<"N","o","d","e",".","j","s">>>>
\* extractSkillsFromText of a posting naming ten skills, one of them a mock skill
TenSkills ==
    <<<<"P","y","t","h","o","n">>,
      <<"R","e","a","c","t">>,
      <<"S","Q","L">>,
      <<"A","W","S">>,
      <<"D","o","c","k","e","r">>,
      <<"G","i","t">>,
      <<"H","T","M","L">>,
      <<"C","S","S">>,
      <<"F","l","a","s","k">>,
      <<"R","e","d","i","s">>>>

\* a stored job list holds postings of at most two of these kinds
JobKindPairs ==
    {{FullStackSkills, FrontendSkills},
     {FrontendSkills, ReactNodeSkills},
     {FullStackSkills, TenSkills},
     {FrontendSkills, DevOpsSkills}}

RankJobLists ==
    UNION {BoundedSeq({[skills |-> k] : k \in pair}, MaxRankJobs) : pair \in JobKindPairs}

\* profiles the user schema admits: no parsedResume, a parsedResume without a
\* skills list, one with an empty list, and the one the upload handler writes
CandidateProfiles ==
    {[skills |-> <<>>, parsedResume |-> NoResume],
     [skills |-> <<>>, parsedResume |-> [present |-> TRUE, hasSkills |-> FALSE, skills |-> <<>>]],
     [skills |-> <<>>, parsedResume |-> Resume(<<>>)],
     [skills |-> MockSkills, parsedResume |-> Resume(MockSkills)]}

InitRank ==
    /\ \E profile \in CandidateProfiles : users = <<[email |-> "a@x", profile |-> profile]>>
    /\ jobs \in RankJobLists
    /\ resumes = <<>>
    /\ applications = <<>>
    /\ reqs = <<>>
    /\ maxReqs = 1
    /\ FnIdle

NextRank ==
    \/ \E u \in DOMAIN users : ReceiveRecommend(u)
    \/ \E r \in DOMAIN reqs : RecommendFindById(r)
    \/ \E r \in DOMAIN reqs : RecommendFind(r)

SpecRank == InitRank /\ [][NextRank]_vars

-----------------------------------------------------------------------------
(* Claims about calculateMatchScore, under SpecScore *)

\* a skill list as the set of its lowercased entries
FoldedSet(skills) == {toLowerCase(skills[i]) : i \in DOMAIN skills}

\* C1: for all skill lists A and B, score(A,B) = score(B,A), also when entries
\* differ only by letter case or repeat after lowercasing.
C1_ScoreSymmetric ==
    fnpc = "done" => ScoreEq(matchScore, swappedScore)

\* C2: the score is 0 when either list is empty, and otherwise the size of the
\* intersection of the two lowercased collections divided by the larger length.
C2_ScoreIsIntersectionOverMax ==
    fnpc = "done" =>
        IF Len(skillsA) = 0 \/ Len(skillsB) = 0
        THEN matchScore.num = 0
        ELSE ScoreEq(matchScore,
                     [num |-> Cardinality(FoldedSet(skillsA) \cap FoldedSet(skillsB)),
                      den |-> Max(Len(skillsA), Len(skillsB))])

\* C3: the score lies in [0,1], and it is 1 only when both lists are non-empty
\* and equal as case-folded sets.
C3_ScoreInUnitRangeOneOnlyIfIdentical ==
    fnpc = "done" =>
        /\ matchScore.den > 0
        /\ 0 <= matchScore.num
        /\ matchScore.num <= matchScore.den
        /\ (matchScore.num = matchScore.den) =>
               /\ Len(skillsA) > 0
               /\ Len(skillsB) > 0
               /\ FoldedSet(skillsA) = FoldedSet(skillsB)

-----------------------------------------------------------------------------
(* Claims about extractSkillsFromText, under SpecExtract *)

\* s occurs in t: t is some prefix, then s, then some suffix
OccursIn(s, t) ==
    \E pre, post \in 0..Len(t) :
        /\ pre + Len(s) + post = Len(t)
        /\ \A i \in 1..Len(s) : t[pre + i] = s[i]

VocabIndex(skill) == CHOOSE j \in DOMAIN commonSkills : commonSkills[j] = skill

WhitespaceOnly(t) == \A i \in DOMAIN t : t[i] = " "

\* C6: extractSkillsFromText returns exactly the vocabulary entries whose
\* lowercased form is a substring of the lowercased text, as canonical
\* vocabulary strings, in vocabulary order and without duplicates; for empty
\* or whitespace-only text the result is empty.
C6_ExtractReturnsVocabularyMatches ==
    fnpc = "done" =>
        /\ \A i \in DOMAIN foundSkills :
               \E j \in DOMAIN commonSkills : foundSkills[i] = commonSkills[j]
        /\ \A j \in DOMAIN commonSkills :
               (\E i \in DOMAIN foundSkills : foundSkills[i] = commonSkills[j])
                   <=> OccursIn(toLowerCase(commonSkills[j]), toLowerCase(text))
        /\ \A i, k \in DOMAIN foundSkills :
               i < k => VocabIndex(foundSkills[i]) < VocabIndex(foundSkills[k])
        /\ WhitespaceOnly(text) => foundSkills = <<>>

\* a text that spells JavaScript in another letter case has been searched:
\* both JavaScript and the shorter Java it contains are returned, canonically
C6_Witness ==
    /\ fnpc = "done"
    /\ ~ OccursIn(commonSkills[1], text)
    /\ Len(foundSkills) >= 2
    /\ foundSkills[1] = commonSkills[1]
    /\ foundSkills[2] = commonSkills[3]

-----------------------------------------------------------------------------
(* Claims about the ranker, under SpecRank *)

Answered(r, kind) == reqs[r].kind = kind /\ reqs[r].pc = "done"

\* the recommendation request r has been answered with a ranked list
Ranked(r) == Answered(r, "recommend") /\ reqs[r].ranJobFind

Returned(r, j) ==
    \E i \in DOMAIN reqs[r].recommendations : reqs[r].recommendations[i].job = j

\* the returned entry rec ranks before stored job j
Outranks(r, rec, j) ==
    \/ ScoreGt(rec.matchScore, reqs[r].scored[j].matchScore)
    \/ /\ ScoreEq(rec.matchScore, reqs[r].scored[j].matchScore)
       /\ rec.job < j

C5_SortedStableThenTruncated ==
    \A r \in DOMAIN reqs : Ranked(r) =>
        LET recs == reqs[r].recommendations
        IN  /\ \A i \in DOMAIN recs : i + 1 \in DOMAIN recs =>
                   /\ ~ ScoreGt(recs[i + 1].matchScore, recs[i].matchScore)
                   /\ ScoreEq(recs[i].matchScore, recs[i + 1].matchScore)
                          => recs[i].job < recs[i + 1].job
            /\ \A j \in DOMAIN reqs[r].scored :
                   (~ Returned(r, j) /\ ScoreGt(reqs[r].scored[j].matchScore, Threshold))
                       => \A i \in DOMAIN recs : Outranks(r, recs[i], j)

\* more than ten jobs qualified, a later job of higher score moved ahead of
\* an earlier one, and two jobs of equal score came back in store order
C5_Witness ==
    \E r \in DOMAIN reqs :
        /\ Ranked(r)
        /\ Len(jobs) = 11
        /\ \A j \in DOMAIN jobs : ScoreGt(reqs[r].scored[j].matchScore, Threshold)
        /\ \E i \in DOMAIN reqs[r].recommendations :
               /\ i + 1 \in DOMAIN reqs[r].recommendations
               /\ reqs[r].recommendations[i].job > reqs[r].recommendations[i + 1].job
        /\ \E i \in DOMAIN reqs[r].recommendations :
               /\ i + 1 \in DOMAIN reqs[r].recommendations
               /\ ScoreEq(reqs[r].recommendations[i].matchScore,
                          reqs[r].recommendations[i + 1].matchScore)
               /\ reqs[r].recommendations[i].job < reqs[r].recommendations[i + 1].job

\* C7: a candidate without a stored parsedResume gets an empty list with the
\* message 'No resume uploaded yet' and no job is read or scored; a candidate
\* whose parsedResume is there with no skills is scored against every job and
\* gets an empty list without that message.
C7_NoProfileShortCircuits ==
    \A r \in DOMAIN reqs : Answered(r, "recommend") =>
        LET profile == users[reqs[r].uid].profile
        IN  /\ ~ profile.parsedResume.present =>
                   /\ reqs[r].status = 200
                   /\ reqs[r].recommendations = <<>>
                   /\ reqs[r].message = "No resume uploaded yet"
                   /\ ~ reqs[r].ranJobFind
                   /\ reqs[r].scored = <<>>
                   /\ ~ reqs[r].sentUserSkills
            /\ (profile.parsedResume.present
                  /\ (~ profile.parsedResume.hasSkills \/ profile.parsedResume.skills = <<>>)) =>
                   /\ reqs[r].status = 200
                   /\ reqs[r].ranJobFind
                   /\ Len(reqs[r].scored) = Len(jobs)
                   /\ \A j \in DOMAIN reqs[r].scored : reqs[r].scored[j].matchScore.num = 0
                   /\ reqs[r].recommendations = <<>>
                   /\ reqs[r].message = ""
                   /\ reqs[r].sentUserSkills
                   /\ reqs[r].skills = <<>>

\* a candidate without a parsedResume asked for recommendations while jobs
\* were stored
C7_Witness ==
    \E r \in DOMAIN reqs :
        /\ Answered(r, "recommend")
        /\ ~ users[reqs[r].uid].profile.parsedResume.present
        /\ Len(jobs) >= 2

\* the other case of C7: the parsedResume is there, its skill list is empty
C7_EmptySkillsReached ==
    \E r \in DOMAIN reqs :
        /\ Answered(r, "recommend")
        /\ users[reqs[r].uid].profile.parsedResume.present
        /\ users[reqs[r].uid].profile.parsedResume.hasSkills
        /\ users[reqs[r].uid].profile.parsedResume.skills = <<>>
        /\ Len(jobs) >= 2

-----------------------------------------------------------------------------
(* Claims about the server, under Spec *)

\* a step of some recommendation request: it is received, or its handler moves
RecommendStep ==
    \E r \in DOMAIN reqs' :
        /\ reqs'[r].kind = "recommend"
        /\ r \in DOMAIN reqs => reqs'[r] # reqs[r]

\* C8: a recommendation request, whatever other requests run between its
\* steps, leaves every stored user, job, resume and application unchanged.
C8_RecommendationMutatesNothing ==
    [][RecommendStep => UNCHANGED storeVars]_vars

\* a ranked list was returned while an upload, a posting or an application of
\* another request was between two of its awaits
C8_Witness ==
    \E r, w \in DOMAIN reqs :
        /\ Ranked(r)
        /\ Len(reqs[r].recommendations) >= 1
        /\ w < r
        /\ reqs[w].kind \in {"upload", "postjob", "apply", "signup"}
        /\ reqs[w].pc \in {"save", "updateUser"}

\* C9: the store holds at most one application per (jobId, userId), and an
\* apply request for a pair that already has a record is answered 400
\* 'Already applied to this job.' and adds no record.
C9_AtMostOneApplicationPerPair ==
    /\ \A i, j \in DOMAIN applications :
           (applications[i].jobId = applications[j].jobId
              /\ applications[i].userId = applications[j].userId) => i = j
    /\ \A r \in DOMAIN reqs :
           (reqs[r].kind = "apply" /\ reqs[r].storedAtStart) =>
               /\ reqs[r].pc # "save"
               /\ reqs[r].pc = "done" =>
                      /\ reqs[r].status = 400
                      /\ reqs[r].message = "Already applied to this job."

\* C10: no two stored users share an email; a signup whose email is stored
\* when it arrives never reaches the save, is answered 400 'Email already
\* exists' and gets no token; a token goes only with the answer 200.
C10_EmailsUniqueDuplicateSignupRejected ==
    /\ \A i, j \in DOMAIN users : users[i].email = users[j].email => i = j
    /\ \A r \in DOMAIN reqs : reqs[r].kind = "signup" =>
           /\ reqs[r].token => (reqs[r].status = 200 /\ EmailStored(reqs[r].email))
           /\ reqs[r].storedAtStart =>
                  /\ reqs[r].pc # "save"
                  /\ ~ reqs[r].token
                  /\ reqs[r].pc = "done" =>
                         /\ reqs[r].status = 400
                         /\ reqs[r].message = "Email already exists"

\* three signups for one email: the first created the user, the second found
\* nothing at its lookup and was refused by the unique index, the third came
\* after the user was stored and was answered 400
C10_Witness ==
    \E a, b, c \in DOMAIN reqs :
        /\ Answered(a, "signup") /\ Answered(b, "signup") /\ Answered(c, "signup")
        /\ reqs[a].email = reqs[b].email /\ reqs[b].email = reqs[c].email
        /\ reqs[a].status = 200 /\ reqs[a].token
        /\ reqs[b].status = 500 /\ ~ reqs[b].storedAtStart
        /\ reqs[c].status = 400 /\ reqs[c].storedAtStart
        /\ Cardinality({i \in DOMAIN users : users[i].email = reqs[a].email}) = 1

====
